---- MODULE Spec2Model ----
(***************************************************************************)
(* Model of the Livebox client (package livebox): session login, the       *)
(* cookie-name transport shim, the request executor, the port forwarding   *)
(* service and the protocol / port-range codecs.                           *)
(*                                                                         *)
(* Text that the code takes apart (port strings, wire identifiers, cookie  *)
(* headers, IP literals) is a sequence of one-character strings; text that *)
(* the code only compares or measures as a whole (protocol names, raw JSON *)
(* payloads, tokens) is a TLA+ string.                                     *)
(***************************************************************************)
EXTENDS Integers, Sequences, FiniteSets, TLC

VARIABLES
    phase,      \* "new": no client yet; "ready": NewClient returned a client; "failed": it returned an error
    token,      \* Client.token
    jar,        \* the cookie store of Client.httpClient: sequence of [name, value]
    rules,      \* the router's forwarding table: wire identifier -> raw record
    issued,     \* the session cookie [name, value] the router last put in a response, <<>> if none
    last,       \* the last client operation: its inputs, the requests the router saw, its result
    codec       \* the last codec evaluation (codec specification only)

vars == <<phase, token, jar, rules, issued, last, codec>>

-----------------------------------------------------------------------------
(* Text helpers: strings.Contains, strings.ReplaceAll, strings.SplitN(s, sep, 2), *)
(* strings.TrimPrefix, strconv.Itoa, strconv.Atoi.                                 *)

Digits == <<"0", "1", "2", "3", "4", "5", "6", "7", "8", "9">>

IsDigit(c) == \E i \in 1..Len(Digits) : Digits[i] = c

DigitVal(c) == (CHOOSE i \in 1..Len(Digits) : Digits[i] = c) - 1

Drop(s, n) == SubSeq(s, n + 1, Len(s))

HasPrefix(s, p) == Len(s) >= Len(p) /\ SubSeq(s, 1, Len(p)) = p

\* strings.Index: the first position where sub occurs in s, 0 when it does not.
Index(s, sub) ==
    IF \E i \in 1..(Len(s) - Len(sub) + 1) : SubSeq(s, i, i + Len(sub) - 1) = sub
    THEN CHOOSE i \in 1..(Len(s) - Len(sub) + 1) :
            /\ SubSeq(s, i, i + Len(sub) - 1) = sub
            /\ \A j \in 1..(i - 1) : SubSeq(s, j, j + Len(sub) - 1) # sub
    ELSE 0

Contains(s, sub) == Len(sub) = 0 \/ Index(s, sub) > 0

\* strings.ReplaceAll for a non-empty old: leftmost, non-overlapping occurrences.
RECURSIVE ReplaceAll(_, _, _)
ReplaceAll(s, old, new) ==
    LET from(i) ==
            IF i = 0 THEN s
            ELSE SubSeq(s, 1, i - 1) \o new \o ReplaceAll(Drop(s, i + Len(old) - 1), old, new)
    IN  from(Index(s, old))

\* strings.SplitN(s, sep, 2): one part when sep does not occur, else the text
\* before the first sep and everything after it.
SplitN2(s, sep) ==
    LET at(i) == IF i = 0 THEN <<s>> ELSE <<SubSeq(s, 1, i - 1), Drop(s, i + Len(sep) - 1)>>
    IN  at(Index(s, sep))

\* strings.Split(s, sep) for a non-empty sep.
RECURSIVE Split(_, _)
Split(s, sep) ==
    LET at(i) ==
            IF i = 0 THEN <<s>>
            ELSE <<SubSeq(s, 1, i - 1)>> \o Split(Drop(s, i + Len(sep) - 1), sep)
    IN  at(Index(s, sep))

TrimPrefix(s, p) == IF HasPrefix(s, p) THEN Drop(s, Len(p)) ELSE s

\* strconv.Itoa
RECURSIVE Itoa(_)
Itoa(n) ==
    IF n < 0 THEN <<"-">> \o Itoa(0 - n)
    ELSE IF n < 10 THEN <<Digits[n + 1]>>
    ELSE Itoa(n \div 10) \o <<Digits[(n % 10) + 1]>>

RECURSIVE DigitsValue(_)
DigitsValue(s) ==
    IF Len(s) = 0 THEN 0 ELSE 10 * DigitsValue(SubSeq(s, 1, Len(s) - 1)) + DigitVal(s[Len(s)])

\* strconv.Atoi: an optional sign, then at least one decimal digit and nothing
\* else. [ok, n]; n = 0 when it fails.
Atoi(s) ==
    LET signed == Len(s) > 0 /\ s[1] \in {"-", "+"}
        digits(body) ==
            IF Len(body) = 0 \/ \E i \in 1..Len(body) : ~IsDigit(body[i])
            THEN [ok |-> FALSE, n |-> 0]
            ELSE [ok |-> TRUE,
                  n |-> IF signed /\ s[1] = "-" THEN 0 - DigitsValue(body) ELSE DigitsValue(body)]
    IN  digits(IF signed THEN Drop(s, 1) ELSE s)

-----------------------------------------------------------------------------
(* Protocol codec (protocol.go).                                            *)

ProtocolUnknown == "unknown"
ProtocolTCP == "tcp"
ProtocolUDP == "udp"
ProtocolTCPUDP == "tcp/udp"

intStringNoUDP(p) ==
    CASE p = ProtocolTCP -> "6"
      [] p = ProtocolUDP -> "6"
      [] p = ProtocolTCPUDP -> "6,17"
      [] OTHER -> ""

intString(p) ==
    CASE p = ProtocolTCP -> "6"
      [] p = ProtocolUDP -> "17"
      [] p = ProtocolTCPUDP -> "6,17"
      [] OTHER -> ""

parseProtocol(p) ==
    CASE p = "6" -> ProtocolTCP
      [] p = "17" -> ProtocolUDP
      [] p = "6,17" -> ProtocolTCPUDP
      [] OTHER -> ProtocolUnknown

-----------------------------------------------------------------------------
(* Port-range codec (port_forwarding.go).                                   *)

PortRangeResult(externalPort, portRange, err) ==
    [externalPort |-> externalPort, portRange |-> portRange, err |-> err]

\* parsePortRange returning the end port in place of the range extent.
parsePortRangeEndAsExtent(port) ==
    LET split(parts) ==
            LET first(start) ==
                    LET second(end) ==
                            IF ~end.ok THEN PortRangeResult(0, 0, <<"parse external port range">>)
                            ELSE PortRangeResult(start.n, end.n, <<>>)
                    IN  IF ~start.ok THEN PortRangeResult(0, 0, <<"parse external port">>)
                        ELSE IF Len(parts) = 1 THEN PortRangeResult(start.n, 0, <<>>)
                        ELSE second(Atoi(parts[2]))
            IN  first(Atoi(parts[1]))
    IN  split(SplitN2(port, <<"-">>))

parsePortRange(port) ==
    LET split(parts) ==
            LET first(start) ==
                    LET second(end) ==
                            IF ~end.ok THEN PortRangeResult(0, 0, <<"parse external port range">>)
                            ELSE PortRangeResult(start.n, end.n - start.n, <<>>)
                    IN  IF ~start.ok THEN PortRangeResult(0, 0, <<"parse external port">>)
                        ELSE IF Len(parts) = 1 THEN PortRangeResult(start.n, 0, <<>>)
                        ELSE second(Atoi(parts[2]))
            IN  first(Atoi(parts[1]))
    IN  split(SplitN2(port, <<"-">>))

formatPortRange(port, portRange) ==
    IF portRange = 0 \/ portRange = 1
    THEN Itoa(port)
    ELSE Itoa(port) \o <<"-">> \o Itoa(port + portRange)

-----------------------------------------------------------------------------
(* net.ParseIP, as PortForwardingConfig.validate uses it: a dotted-quad     *)
(* IPv4 literal (four decimal fields 0..255, no leading zero) or an IPv6    *)
(* literal of hexadecimal groups with at most one "::". IPv6 literals with  *)
(* an embedded IPv4 tail are outside the inputs of this model.              *)

HexDigits == {"0", "1", "2", "3", "4", "5", "6", "7", "8", "9",
              "a", "b", "c", "d", "e", "f", "A", "B", "C", "D", "E", "F"}

IsIPv4Field(f) ==
    /\ Len(f) \in 1..3
    /\ \A i \in 1..Len(f) : IsDigit(f[i])
    /\ (Len(f) > 1 => f[1] # "0")
    /\ DigitsValue(f) <= 255

IsIPv4(s) ==
    LET quad(fields) == Len(fields) = 4 /\ \A i \in 1..4 : IsIPv4Field(fields[i])
    IN  quad(Split(s, <<".">>))

IsHexGroup(g) == Len(g) \in 1..4 /\ \A i \in 1..Len(g) : g[i] \in HexDigits

GroupsOf(s) == IF Len(s) = 0 THEN <<>> ELSE Split(s, <<":">>)

AllHexGroups(groups) == \A i \in 1..Len(groups) : IsHexGroup(groups[i])

IsIPv6(s) ==
    LET full(groups) == Len(groups) = 8 /\ AllHexGroups(groups)
        elided(left, right) ==
            Len(left) + Len(right) <= 7 /\ AllHexGroups(left) /\ AllHexGroups(right)
        around(at) ==
            IF at = 0 THEN full(GroupsOf(s))
            ELSE /\ Index(Drop(s, at + 1), <<":", ":">>) = 0
                 /\ elided(GroupsOf(SubSeq(s, 1, at - 1)), GroupsOf(Drop(s, at + 1)))
    IN  around(Index(s, <<":", ":">>))

ParseIP(s) == IsIPv4(s) \/ IsIPv6(s)

-----------------------------------------------------------------------------
(* PortForwardingConfig.validate: the first failing check decides the error; *)
(* <<>> is the nil error.                                                    *)

MinPort == 1
MaxPort == 65535
MinPortRange == 0
MaxPortRange == 65535

validateNoExternalUpperBound(c) ==
    IF c.Name = <<>> THEN <<"empty name">>
    ELSE IF c.ExternalPort < MinPort THEN <<"invalid external port">>
    ELSE IF c.InternalPort < MinPort \/ c.InternalPort > MaxPort THEN <<"invalid external port">>
    ELSE IF c.PortRange < MinPortRange \/ c.PortRange > MaxPortRange THEN <<"invalid port range">>
    ELSE IF c.Protocol # ProtocolTCP /\ c.Protocol # ProtocolUDP /\ c.Protocol # ProtocolTCPUDP
         THEN <<"invalid protocol">>
    ELSE IF ~ParseIP(c.Destination) THEN <<"invalid destination">>
    ELSE <<>>

validate(c) ==
    IF c.Name = <<>> THEN <<"empty name">>
    ELSE IF c.ExternalPort < MinPort \/ c.ExternalPort > MaxPort THEN <<"invalid external port">>
    ELSE IF c.InternalPort < MinPort \/ c.InternalPort > MaxPort THEN <<"invalid external port">>
    ELSE IF c.PortRange < MinPortRange \/ c.PortRange > MaxPortRange THEN <<"invalid port range">>
    ELSE IF c.Protocol # ProtocolTCP /\ c.Protocol # ProtocolUDP /\ c.Protocol # ProtocolTCPUDP
         THEN <<"invalid protocol">>
    ELSE IF ~ParseIP(c.Destination) THEN <<"invalid destination">>
    ELSE <<>>

-----------------------------------------------------------------------------
(* The cookie store (net/http/cookiejar, created by NewClient) and the way   *)
(* http.Client uses it: Set-Cookie lines are parsed and stored after a      *)
(* response, and the stored cookies that match the request path are joined  *)
(* into one Cookie header before a request. Expiry and domains are outside  *)
(* the inputs of this model; the request path is always "/ws".              *)

RequestPath == <<"/", "w", "s">>

NonTokenChars == {"/", "(", ")", "<", ">", "@", ",", ";", ":", "\\", "\"", "[", "]", "?", "=", "{", "}", " "}

IsCookieNameValid(name) == Len(name) > 0 /\ \A i \in 1..Len(name) : name[i] \notin NonTokenChars

IsCookieValueValid(value) == \A i \in 1..Len(value) : value[i] \notin {"\"", ";", "\\", " ", ","}

TrimLeft(s) == IF Len(s) > 0 /\ s[1] = " " THEN Drop(s, 1) ELSE s

\* The Path attribute among the attribute parts of a Set-Cookie line, <<>> if none.
RECURSIVE PathAttribute(_)
PathAttribute(attrs) ==
    LET pick(kv) ==
            IF Len(kv) = 2 /\ kv[1] \in {<<"P", "a", "t", "h">>, <<"p", "a", "t", "h">>}
            THEN kv[2]
            ELSE PathAttribute(Tail(attrs))
    IN  IF Len(attrs) = 0 THEN <<>> ELSE pick(SplitN2(TrimLeft(attrs[1]), <<"=">>))

\* One Set-Cookie line as http.Response.Cookies reads it: [ok, name, value, path].
ReadSetCookie(line) ==
    LET read(parts) ==
            LET pair(kv) ==
                    IF Len(kv) = 2 /\ IsCookieNameValid(kv[1]) /\ IsCookieValueValid(kv[2])
                    THEN [ok |-> TRUE, name |-> kv[1], value |-> kv[2],
                          path |-> PathAttribute(Tail(parts))]
                    ELSE [ok |-> FALSE, name |-> <<>>, value |-> <<>>, path |-> <<>>]
            IN  pair(SplitN2(parts[1], <<"=">>))
    IN  read(Split(line, <<";">>))

\* cookiejar: a cookie without a path that starts with "/" gets the default
\* path of the request URL, which is "/" for "/ws".
JarPath(path) == IF Len(path) > 0 /\ path[1] = "/" THEN path ELSE <<"/">>

\* cookiejar: a cookie replaces the stored one of the same name and path, and is
\* added after the others when there is none.
StoreCookie(store, c) ==
    LET put(entry) ==
            IF \E i \in 1..Len(store) : store[i].name = entry.name /\ store[i].path = entry.path
            THEN [i \in 1..Len(store) |->
                    IF store[i].name = entry.name /\ store[i].path = entry.path
                    THEN entry ELSE store[i]]
            ELSE Append(store, entry)
    IN  IF ~c.ok THEN store
        ELSE put([name |-> c.name, value |-> c.value, path |-> JarPath(c.path)])

RECURSIVE SetCookies(_, _)
SetCookies(store, lines) ==
    IF Len(lines) = 0 THEN store
    ELSE SetCookies(StoreCookie(store, ReadSetCookie(lines[1])), Tail(lines))

PathMatch(cookiePath) ==
    \/ cookiePath = RequestPath
    \/ /\ HasPrefix(RequestPath, cookiePath)
       /\ \/ cookiePath[Len(cookiePath)] = "/"
          \/ RequestPath[Len(cookiePath) + 1] = "/"

\* Stable sort of the matching cookies, longer paths first.
RECURSIVE ByPathLength(_, _)
ByPathLength(store, n) ==
    IF n = 0 THEN <<>>
    ELSE SelectSeq(store, LAMBDA e : Len(e.path) = n) \o ByPathLength(store, n - 1)

RECURSIVE JoinCookies(_)
JoinCookies(cs) ==
    IF Len(cs) = 0 THEN <<>>
    ELSE cs[1].name \o <<"=">> \o cs[1].value
         \o (IF Len(cs) = 1 THEN <<>> ELSE <<";", " ">> \o JoinCookies(Tail(cs)))

\* The Cookie header lines http.Client puts on a request: none, or one line.
CookieHeader(store) ==
    LET header(matching) ==
            IF Len(matching) = 0 THEN <<>>
            ELSE <<JoinCookies(ByPathLength(matching, Len(RequestPath)))>>
    IN  header(SelectSeq(store, LAMBDA e : PathMatch(e.path)))

\* A Cookie header line as the router reads it: the sequence of [name, value].
RECURSIVE ParseCookiePairs(_)
ParseCookiePairs(parts) ==
    LET pair(kv) == [name |-> kv[1], value |-> IF Len(kv) = 2 THEN kv[2] ELSE <<>>]
    IN  IF Len(parts) = 0 THEN <<>>
        ELSE <<pair(SplitN2(parts[1], <<"=">>))>> \o ParseCookiePairs(Tail(parts))

ParseCookieLine(line) == ParseCookiePairs(Split(line, <<";", " ">>))

-----------------------------------------------------------------------------
(* cookieNamePatcher.RoundTrip.                                             *)

realCookieName == <<"/", "s", "e", "s", "s", "i", "d">>
patchedCookieName == <<"-", "s", "e", "s", "s", "i", "d">>

\* http.Header.Get: the first value of the header, "" when there is none.
HeaderGet(lines) == IF Len(lines) = 0 THEN <<>> ELSE lines[1]

\* Lines 22-24: the first Cookie line, rewritten when it holds the patched name.
PatchRequest(cookie) ==
    IF Contains(HeaderGet(cookie), patchedCookieName)
    THEN [cookie EXCEPT ![1] = ReplaceAll(cookie[1], patchedCookieName, realCookieName)]
    ELSE cookie

\* Lines 31-33: the first Set-Cookie line, rewritten when it holds the real name.
PatchResponse(setCookie) ==
    IF Contains(HeaderGet(setCookie), realCookieName)
    THEN [setCookie EXCEPT ![1] = ReplaceAll(setCookie[1], realCookieName, patchedCookieName)]
    ELSE setCookie

-----------------------------------------------------------------------------
(* The router, as the client meets it. What it answers is an input of each  *)
(* operation (env): whether the transport fails, the HTTP status code, the  *)
(* Set-Cookie lines, the shape of the body, the raw errors payload (the     *)
(* JSON text, "" when the field is absent), the status payload and, for the *)
(* login call, the data payload. A call the router accepts changes its      *)
(* forwarding table the way the request says.                               *)

EmptyTable == <<>>

\* The errors payload holds at least one error: it is not absent, null or an
\* empty JSON value.
ErrorsNonEmpty(text) == text \notin {"", "null", "[]", "{}", "\"\""}

\* The raw record the router keeps for a setPortForwarding request.
StoredRule(p) ==
    [Description          |-> p.description,
     Protocol             |-> p.protocol,
     ExternalPort         |-> p.externalPort,
     InternalPort         |-> Itoa(p.internalPort),
     DestinationIPAddress |-> p.destinationIPAddress,
     Enable               |-> p.enable]

RouterRules(wire, table, env) ==
    IF env.fail # "none" \/ ErrorsNonEmpty(env.errors) THEN table
    ELSE IF wire.body.method = "setPortForwarding"
    THEN [id \in DOMAIN table \cup {wire.body.parameters.id} |->
            IF id = wire.body.parameters.id THEN StoredRule(wire.body.parameters) ELSE table[id]]
    ELSE IF wire.body.method = "deletePortForwarding"
    THEN [id \in DOMAIN table \ {wire.body.parameters.id} |-> table[id]]
    ELSE table

RouterStatus(wire, table, env) ==
    IF env.status # "served" THEN [kind |-> env.status, tbl |-> EmptyTable]
    ELSE IF wire.body.method = "getPortForwarding" THEN [kind |-> "table", tbl |-> table]
    ELSE [kind |-> "bool", tbl |-> EmptyTable]

RouterResponse(wire, table, env) ==
    [code      |-> env.code,
     setCookie |-> env.setCookie,
     body      |-> [shape  |-> IF env.fail = "none" THEN "object" ELSE env.fail,
                    status |-> RouterStatus(wire, table, env),
                    errors |-> env.errors,
                    data   |-> env.data]]

\* The session cookie of a Set-Cookie line as the router wrote it, if it is one.
SessionCookieOf(line) ==
    LET pair(kv) ==
            IF Len(kv) = 2 /\ Contains(kv[1], realCookieName)
            THEN <<[name |-> kv[1], value |-> kv[2]]>>
            ELSE <<>>
    IN  pair(SplitN2(Split(line, <<";">>)[1], <<"=">>))

RECURSIVE SessionCookiesOf(_)
SessionCookiesOf(lines) ==
    IF Len(lines) = 0 THEN <<>> ELSE SessionCookieOf(lines[1]) \o SessionCookiesOf(Tail(lines))

\* The session cookie in force after a response: the last one the router set.
NextIssued(before, env) ==
    LET latest(set) == IF Len(set) = 0 THEN before ELSE <<set[Len(set)]>>
    IN  latest(IF env.fail = "transport" THEN <<>> ELSE SessionCookiesOf(env.setCookie))

-----------------------------------------------------------------------------
(* cookieNamePatcher.RoundTrip and http.Client.Do around it.                *)

NoResponse ==
    [code |-> 0, setCookie |-> <<>>,
     body |-> [shape |-> "none", status |-> [kind |-> "absent", tbl |-> EmptyTable],
               errors |-> "", data |-> [kind |-> "absent", contextID |-> ""]]]

RoundTrip(req, table, env) ==
    LET transport(wire) ==
            IF env.fail = "transport"
            THEN [ok |-> FALSE, wire |-> wire, resp |-> NoResponse, rules |-> table]
            ELSE [ok |-> TRUE, wire |-> wire,
                  resp |-> [RouterResponse(wire, table, env) EXCEPT
                                !.setCookie = PatchResponse(env.setCookie)],
                  rules |-> RouterRules(wire, table, env)]
    IN  transport([req EXCEPT !.cookie = PatchRequest(req.cookie)])

\* http.Client.Do with a cookie jar: the jar's cookies go on the request, the
\* transport runs, the response's cookies go into the jar.
Do(req, store, table, env) ==
    LET after(rt) ==
            [ok |-> rt.ok, wire |-> rt.wire, resp |-> rt.resp, rules |-> rt.rules,
             jar |-> IF rt.ok THEN SetCookies(store, rt.resp.setCookie) ELSE store]
    IN  after(RoundTrip([req EXCEPT !.cookie = CookieHeader(store)], table, env))

-----------------------------------------------------------------------------
(* The request executor (request.go).                                       *)

ContentType == "application/x-sah-ws-4-call+json"

NilRaw == [kind |-> "absent", tbl |-> EmptyTable]

\* json.Decoder.Decode into apiResponse: a body that is not JSON, or JSON that
\* is not an object, is an error; null leaves both fields nil. A json.RawMessage
\* field keeps the raw text of its value, whatever the value is.
DecodeEnvelope(body) ==
    IF body.shape \in {"malformed", "notobject"}
    THEN [ok |-> FALSE, Status |-> NilRaw, Errors |-> ""]
    ELSE IF body.shape = "null"
    THEN [ok |-> TRUE, Status |-> NilRaw, Errors |-> ""]
    ELSE [ok |-> TRUE, Status |-> body.status, Errors |-> body.errors]

\* The Authorization header of doReq without the token.
AuthorizationNoToken(tok) == "X-Sah "

\* Line 32 of doReq.
Authorization(tok) == "X-Sah " \o tok

\* ResponseError deciding by the HTTP status code instead of the errors payload.
ResponseErrorByStatusCode(d, dec) ==
    IF ~d.ok THEN <<"transport error">>
    ELSE IF ~dec.ok THEN <<"decode error">>
    ELSE IF d.resp.code >= 400 THEN <<"api error">>
    ELSE <<>>

\* Lines 35-48 of doReq: the error it returns for the outcome d of the HTTP
\* call and the decoded envelope dec.
ResponseError(d, dec) ==
    IF ~d.ok THEN <<"transport error">>
    ELSE IF ~dec.ok THEN <<"decode error">>
    ELSE IF Len(dec.Errors) > 0 THEN <<"api error">>
    ELSE <<>>

doReq(tok, store, table, r, env) ==
    LET made(d) ==
            LET decoded(dec) ==
                    LET done(err) ==
                            [data |-> IF err = <<>> THEN dec.Status ELSE NilRaw,
                             err |-> err, sent |-> <<d.wire>>, jar |-> d.jar, rules |-> d.rules]
                    IN  done(ResponseError(d, dec))
            IN  decoded(DecodeEnvelope(d.resp.body))
    IN  made(Do([authorization |-> Authorization(tok), contentType |-> ContentType,
                 cookie |-> <<>>, body |-> r], store, table, env))

doAuthReq(store, table, r, env) ==
    LET made(d) ==
            [resp |-> d.resp, err |-> IF d.ok THEN <<>> ELSE <<"transport error">>,
             sent |-> <<d.wire>>, jar |-> d.jar, rules |-> d.rules]
    IN  made(Do([authorization |-> "X-Sah-Login", contentType |-> ContentType,
                 cookie |-> <<>>, body |-> r], store, table, env))

-----------------------------------------------------------------------------
(* Session login and client construction (client.go).                       *)

\* json.Decoder.Decode into the login response struct: only data.contextID is
\* read; an absent or null data, or an absent contextID, leaves it "".
DecodeLogin(body) ==
    IF body.shape \in {"malformed", "notobject"} \/ (body.shape = "object" /\ body.data.kind = "string")
    THEN [ok |-> FALSE, ContextID |-> ""]
    ELSE IF body.shape = "object" /\ body.data.kind = "object"
    THEN [ok |-> TRUE, ContextID |-> body.data.contextID]
    ELSE [ok |-> TRUE, ContextID |-> ""]

login(password, store, table, env) ==
    LET called(r) ==
            LET decoded(dec) ==
                    LET done(err) ==
                            [err |-> err, token |-> IF err = <<>> THEN dec.ContextID ELSE "",
                             sent |-> r.sent, jar |-> r.jar, rules |-> r.rules]
                    IN  done(IF r.err # <<>> THEN r.err
                             ELSE IF ~dec.ok THEN <<"decode error">> ELSE <<>>)
            IN  decoded(DecodeLogin(r.resp.body))
    IN  called(doAuthReq(store, table,
                         [service |-> "sah.Device.Information", method |-> "createContext",
                          parameters |-> [applicationName |-> "webui", username |-> "admin",
                                          password |-> password]],
                         env))

-----------------------------------------------------------------------------
(* The port forwarding service (port_forwarding.go). Every operation yields *)
(* its result, its error chain (<<>> is nil), the requests it put on the     *)
(* wire, what doReq returned (call), and the cookie store and router table  *)
(* it leaves behind.                                                        *)

WebuiPrefix == <<"w", "e", "b", "u", "i", "_">>

NoCall == [data |-> NilRaw, err |-> <<>>]

Wrap(what, err) == <<what>> \o err

\* json.Unmarshal of the status payload into map[string]getPortForwardingResp.
UnmarshalTable(data) ==
    IF data.kind = "table" THEN [ok |-> TRUE, tbl |-> data.tbl]
    ELSE IF data.kind = "null" THEN [ok |-> TRUE, tbl |-> EmptyTable]
    ELSE [ok |-> FALSE, tbl |-> EmptyTable]

\* Lines 64-83 of ListPortForwardings: the record of one entry of the mapping.
DecodeEntry(id, raw) ==
    LET ports(pr, ip) ==
            IF pr.err # <<>> THEN [out |-> <<>>, err |-> Wrap("parse port range", pr.err)]
            ELSE IF ~ip.ok THEN [out |-> <<>>, err |-> <<"parse internal port">>]
            ELSE [out |-> <<[Name         |-> TrimPrefix(id, WebuiPrefix),
                             Protocol     |-> parseProtocol(raw.Protocol),
                             ExternalPort |-> pr.externalPort,
                             InternalPort |-> ip.n,
                             PortRange    |-> pr.portRange,
                             Destination  |-> raw.DestinationIPAddress,
                             Enabled      |-> raw.Enable]>>,
                  err |-> <<>>]
    IN  ports(parsePortRange(raw.ExternalPort), Atoi(raw.InternalPort))

\* The loop of ListPortForwardings leaving out the entries that do not parse.
RECURSIVE DecodeEntriesSkipBad(_, _)
DecodeEntriesSkipBad(tbl, ids) ==
    LET entry(first) ==
            LET others(rest) == [out |-> first.out \o rest.out, err |-> <<>>]
            IN  others(DecodeEntriesSkipBad(tbl, Tail(ids)))
    IN  IF Len(ids) = 0 THEN [out |-> <<>>, err |-> <<>>]
        ELSE entry(DecodeEntry(ids[1], tbl[ids[1]]))

\* The loop of ListPortForwardings over the entries in iteration order ids:
\* the first entry that does not parse ends the call with an error.
RECURSIVE DecodeEntries(_, _)
DecodeEntries(tbl, ids) ==
    LET entry(first) ==
            LET others(rest) ==
                    IF rest.err # <<>> THEN rest
                    ELSE [out |-> first.out \o rest.out, err |-> <<>>]
            IN  IF first.err # <<>> THEN first ELSE others(DecodeEntries(tbl, Tail(ids)))
    IN  IF Len(ids) = 0 THEN [out |-> <<>>, err |-> <<>>]
        ELSE entry(DecodeEntry(ids[1], tbl[ids[1]]))

\* order: the iteration order of the Go map, any order of the identifiers.
ListPortForwardings(tok, store, table, env, order) ==
    LET called(r) ==
            LET unmarshalled(m) ==
                    LET done(res) ==
                            [out |-> res.out, err |-> res.err,
                             call |-> [data |-> r.data, err |-> r.err],
                             sent |-> r.sent, jar |-> r.jar, rules |-> r.rules]
                    IN  done(IF r.err # <<>> THEN [out |-> <<>>, err |-> Wrap("do request", r.err)]
                             ELSE IF ~m.ok THEN [out |-> <<>>, err |-> <<"unmarshal data">>]
                             ELSE DecodeEntries(m.tbl, SelectSeq(order, LAMBDA id : id \in DOMAIN m.tbl)))
            IN  unmarshalled(UnmarshalTable(r.data))
    IN  called(doReq(tok, store, table,
                     [service |-> "Firewall", method |-> "getPortForwarding",
                      parameters |-> [origin |-> "webui"]],
                     env))

\* The scan of GetPortForwarding that takes the first record, whatever its name.
FindByNameFirstRecord(pfs, name) ==
    IF pfs.err # <<>> THEN [out |-> <<>>, err |-> Wrap("list port forwardings", pfs.err)]
    ELSE IF Len(pfs.out) > 0 THEN [out |-> <<pfs.out[1]>>, err |-> <<>>]
    ELSE [out |-> <<>>, err |-> <<"port forward not found">>]

\* Lines 94-104 of GetPortForwarding, on the result pfs of the list call.
FindByName(pfs, name) ==
    IF pfs.err # <<>> THEN [out |-> <<>>, err |-> Wrap("list port forwardings", pfs.err)]
    ELSE IF \E i \in 1..Len(pfs.out) : pfs.out[i].Name = name
    THEN [out |-> <<pfs.out[CHOOSE i \in 1..Len(pfs.out) :
                        /\ pfs.out[i].Name = name
                        /\ \A j \in 1..(i - 1) : pfs.out[j].Name # name]>>,
          err |-> <<>>]
    ELSE [out |-> <<>>, err |-> <<"port forward not found">>]

GetPortForwarding(tok, store, table, env, order, name) ==
    LET listed(pfs) ==
            LET done(found) ==
                    [out |-> found.out, err |-> found.err,
                     list |-> [out |-> pfs.out, err |-> pfs.err],
                     call |-> pfs.call, sent |-> pfs.sent, jar |-> pfs.jar, rules |-> pfs.rules]
            IN  done(FindByName(pfs, name))
    IN  listed(ListPortForwardings(tok, store, table, env, order))

\* The payload of UpsertPortForwarding with the bare name as identifier.
UpsertPayloadBareName(cfg) ==
    [service |-> "Firewall", method |-> "setPortForwarding",
     parameters |->
        [id                   |-> cfg.Name,
         description          |-> cfg.Name,
         protocol             |-> intString(cfg.Protocol),
         internalPort         |-> cfg.InternalPort,
         externalPort         |-> formatPortRange(cfg.ExternalPort, cfg.PortRange),
         destinationIPAddress |-> cfg.Destination,
         sourcePrefix         |-> "",
         persistent           |-> TRUE,
         enable               |-> cfg.Enabled,
         sourceInterface      |-> "data",
         origin               |-> "webui"]]

\* Lines 153-169 of UpsertPortForwarding.
UpsertPayload(cfg) ==
    [service |-> "Firewall", method |-> "setPortForwarding",
     parameters |->
        [id                   |-> WebuiPrefix \o cfg.Name,
         description          |-> cfg.Name,
         protocol             |-> intString(cfg.Protocol),
         internalPort         |-> cfg.InternalPort,
         externalPort         |-> formatPortRange(cfg.ExternalPort, cfg.PortRange),
         destinationIPAddress |-> cfg.Destination,
         sourcePrefix         |-> "",
         persistent           |-> TRUE,
         enable               |-> cfg.Enabled,
         sourceInterface      |-> "data",
         origin               |-> "webui"]]

\* What an operation yields once its doReq call returned r.
AfterCall(r) ==
    [err |-> IF r.err # <<>> THEN Wrap("do request", r.err) ELSE <<>>,
     call |-> [data |-> r.data, err |-> r.err],
     sent |-> r.sent, jar |-> r.jar, rules |-> r.rules]

UpsertPortForwarding(tok, store, table, env, cfg) ==
    LET checked(invalid) ==
            IF invalid # <<>>
            THEN [err |-> Wrap("validate configuration", invalid), call |-> NoCall,
                  sent |-> <<>>, jar |-> store, rules |-> table]
            ELSE AfterCall(doReq(tok, store, table, UpsertPayload(cfg), env))
    IN  checked(validate(cfg))

\* Lines 180-187 of DeletePortForwarding.
DeletePayload(name) ==
    [service |-> "Firewall", method |-> "deletePortForwarding",
     parameters |-> [id |-> WebuiPrefix \o name, origin |-> "webui"]]

DeletePortForwarding(tok, store, table, env, name) ==
    AfterCall(doReq(tok, store, table, DeletePayload(name), env))

-----------------------------------------------------------------------------
(* Inputs of the operations.                                                *)

NameA == <<"a">>
NameWG == <<"w", "g">>
Names == {<<>>, NameA, NameWG}

IPv4Literal == <<"1", "9", "2", ".", "1", "6", "8", ".", "1", "0", ".", "2", "0", "0">>
IPv6Literal == <<"f", "e", "8", "0", ":", ":", "1">>
NotAnIP == <<"n", "o", "t", "-", "a", "n", "-", "i", "p">>
OctetTooBig == <<"2", "5", "6", ".", "1", ".", "1", ".", "1">>
ThreeOctets == <<"1", ".", "2", ".", "3">>
Destinations == {IPv4Literal, IPv6Literal, NotAnIP, OctetTooBig, ThreeOctets, <<>>}

\* The destinations above that are IP literals.
ValidIPLiterals == {IPv4Literal, IPv6Literal}

BaseCfg ==
    [Name |-> NameWG, ExternalPort |-> 51820, InternalPort |-> 51820, PortRange |-> 0,
     Protocol |-> ProtocolUDP, Destination |-> IPv4Literal, Enabled |-> TRUE]

RangeCfg ==
    [Name |-> NameA, ExternalPort |-> 8000, InternalPort |-> 80, PortRange |-> 10,
     Protocol |-> ProtocolTCP, Destination |-> IPv6Literal, Enabled |-> FALSE]

\* The base configuration with one field changed, to each side of every limit
\* of validate, and a configuration with two fields out of range.
Cfgs ==
    {BaseCfg, RangeCfg}
    \cup {[BaseCfg EXCEPT !.Name = n] : n \in {<<>>, NameA}}
    \cup {[BaseCfg EXCEPT !.ExternalPort = x] : x \in {0 - 1, MinPort - 1, MinPort, MaxPort, MaxPort + 1}}
    \cup {[BaseCfg EXCEPT !.InternalPort = x] : x \in {MinPort - 1, MinPort, MaxPort, MaxPort + 1}}
    \cup {[BaseCfg EXCEPT !.PortRange = x] :
            x \in {MinPortRange - 1, MinPortRange + 1, MinPortRange + 2, MaxPortRange, MaxPortRange + 1}}
    \cup {[BaseCfg EXCEPT !.Protocol = x] : x \in {ProtocolTCP, ProtocolTCPUDP, ProtocolUnknown, "icmp", ""}}
    \cup {[BaseCfg EXCEPT !.Destination = d] : d \in Destinations}
    \cup {[BaseCfg EXCEPT !.ExternalPort = MaxPort + 1, !.Destination = NotAnIP]}

NoCfg ==
    [Name |-> <<>>, ExternalPort |-> 0, InternalPort |-> 0, PortRange |-> 0,
     Protocol |-> "", Destination |-> <<>>, Enabled |-> FALSE]

Passwords == {"secret", "wrong"}

NoData == [kind |-> "absent", contextID |-> ""]

ErrorList == "[{\"error\":13,\"description\":\"Permission denied\"}]"

SessionLine(value) == realCookieName \o <<"=">> \o value

Env(fail, code, setCookie, errors, status, data) ==
    [fail |-> fail, code |-> code, setCookie |-> setCookie, errors |-> errors,
     status |-> status, data |-> data]

NoEnv == Env("none", 0, <<>>, "", "absent", NoData)

\* What the router may answer to the login call.
LoginEnvs ==
    {Env("transport", 0, <<>>, "", "absent", NoData),
     Env("malformed", 200, <<>>, "", "absent", NoData),
     Env("notobject", 502, <<>>, "", "absent", NoData),
     Env("none", 200, <<>>, "", "served", [kind |-> "string", contextID |-> ""]),
     Env("none", 200, <<SessionLine(<<"t", "1">>)>>, "", "served", [kind |-> "object", contextID |-> "ctx1"]),
     Env("none", 200, <<>>, "[]", "served", [kind |-> "object", contextID |-> "ctx2"]),
     Env("none", 200, <<>>, ErrorList, "null", NoData),
     Env("none", 401, <<>>, ErrorList, "null", NoData)}

\* What the router may answer to an authenticated call.
CallEnvs ==
    {Env("transport", 0, <<>>, "", "absent", NoData),
     Env("malformed", 200, <<>>, "", "absent", NoData),
     Env("notobject", 502, <<>>, "", "absent", NoData),
     Env("none", 200, <<>>, "", "served", NoData),
     Env("none", 500, <<>>, "", "served", NoData),
     Env("none", 200, <<>>, "[]", "served", NoData),
     Env("none", 200, <<>>, "null", "served", NoData),
     Env("none", 200, <<>>, ErrorList, "served", NoData),
     Env("none", 401, <<>>, ErrorList, "absent", NoData),
     Env("none", 200, <<>>, "", "absent", NoData),
     Env("none", 200, <<>>, "", "null", NoData),
     Env("none", 200, <<>>, "", "bool", NoData)}

\* A few of them, for the runs that vary the configuration.
UpsertEnvs ==
    {Env("transport", 0, <<>>, "", "absent", NoData),
     Env("none", 200, <<>>, "", "served", NoData),
     Env("none", 200, <<>>, ErrorList, "served", NoData)}

Rule(protocol, externalPort, internalPort) ==
    [Description |-> <<>>, Protocol |-> protocol, ExternalPort |-> externalPort,
     InternalPort |-> internalPort, DestinationIPAddress |-> IPv4Literal, Enable |-> TRUE]

Table(ids, recs) == [id \in {ids[i] : i \in 1..Len(ids)} |->
                        recs[CHOOSE i \in 1..Len(ids) : ids[i] = id]]

\* The forwarding tables the router may hold when the client is constructed:
\* rules may have been made before, and through the router's own interface.
InitialTables ==
    {EmptyTable,
     Table(<<WebuiPrefix \o NameA>>,
           <<Rule("6", <<"8", "0", "0", "0", "-", "8", "0", "1", "0">>, <<"8", "0">>)>>),
     Table(<<NameA, WebuiPrefix \o NameA>>,
           <<Rule("17", <<"5", "3">>, <<"5", "3">>), Rule("6,17", <<"4", "4", "3">>, <<"4", "4", "3">>)>>),
     Table(<<WebuiPrefix \o NameA, WebuiPrefix \o <<"x">>>>,
           <<Rule("6", <<"2", "2">>, <<"2", "2">>), Rule("1", <<"8", "0", "-", "x">>, <<"8", "0">>)>>)}

\* Permutations of a finite set, as sequences.
Perms(S) ==
    {f \in [1..Cardinality(S) -> S] : \A i, j \in 1..Cardinality(S) : f[i] = f[j] => i = j}

-----------------------------------------------------------------------------
(* State and operations.                                                    *)

NoList == [out |-> <<>>, err |-> <<>>]

NoCodec ==
    [op |-> "none", port |-> 0, extent |-> 0, word |-> "", text |-> <<>>,
     parsed |-> PortRangeResult(0, 0, <<>>), back |-> <<>>, wire |-> "", proto |-> ""]

Op(op, name, cfg, env, r, out, list) ==
    [op |-> op, name |-> name, cfg |-> cfg, env |-> env, sent |-> r.sent, err |-> r.err,
     out |-> out, call |-> r.call, list |-> list,
     pre |-> [issued |-> issued, jar |-> jar]]

ClientInit(tables) ==
    /\ phase = "new"
    /\ token = ""
    /\ jar = <<>>
    /\ rules \in tables
    /\ issued = <<>>
    /\ last = [op |-> "none", name |-> <<>>, cfg |-> NoCfg, env |-> NoEnv, sent |-> <<>>,
               err |-> <<>>, out |-> <<>>, call |-> NoCall, list |-> NoList,
               pre |-> [issued |-> <<>>, jar |-> <<>>]]

Init == ClientInit(InitialTables) /\ codec = NoCodec

\* NewClient: a fresh cookie jar, then login; the client exists only if login
\* returned no error.
NewClient(password, env) ==
    /\ phase = "new"
    /\ \E r \in {login(password, <<>>, rules, env)} :
           /\ phase' = IF r.err = <<>> THEN "ready" ELSE "failed"
           /\ token' = r.token
           /\ jar' = r.jar
           /\ rules' = r.rules
           /\ issued' = NextIssued(issued, env)
           /\ last' = Op("NewClient", <<>>, NoCfg, env,
                         [sent |-> r.sent, err |-> r.err, call |-> NoCall], <<>>, NoList)
    /\ UNCHANGED codec

List(env, order) ==
    /\ phase = "ready"
    /\ \E r \in {ListPortForwardings(token, jar, rules, env, order)} :
           /\ jar' = r.jar
           /\ rules' = r.rules
           /\ issued' = NextIssued(issued, env)
           /\ last' = Op("List", <<>>, NoCfg, env, r, r.out, [out |-> r.out, err |-> r.err])
    /\ UNCHANGED <<phase, token, codec>>

Get(name, env, order) ==
    /\ phase = "ready"
    /\ \E r \in {GetPortForwarding(token, jar, rules, env, order, name)} :
           /\ jar' = r.jar
           /\ rules' = r.rules
           /\ issued' = NextIssued(issued, env)
           /\ last' = Op("Get", name, NoCfg, env, r, r.out, r.list)
    /\ UNCHANGED <<phase, token, codec>>

Upsert(cfg, env) ==
    /\ phase = "ready"
    /\ \E r \in {UpsertPortForwarding(token, jar, rules, env, cfg)} :
       \E e \in {IF Len(r.sent) = 0 THEN NoEnv ELSE env} :
           /\ jar' = r.jar
           /\ rules' = r.rules
           /\ issued' = NextIssued(issued, e)
           /\ last' = Op("Upsert", cfg.Name, cfg, e, r, <<>>, NoList)
    /\ UNCHANGED <<phase, token, codec>>

Delete(name, env) ==
    /\ phase = "ready"
    /\ \E r \in {DeletePortForwarding(token, jar, rules, env, name)} :
           /\ jar' = r.jar
           /\ rules' = r.rules
           /\ issued' = NextIssued(issued, env)
           /\ last' = Op("Delete", name, NoCfg, env, r, <<>>, NoList)
    /\ UNCHANGED <<phase, token, codec>>

Step(passwords, loginEnvs, callEnvs, names, cfgs) ==
    \/ \E pw \in passwords, env \in loginEnvs : NewClient(pw, env)
    \/ \E env \in callEnvs, order \in Perms(DOMAIN rules) : List(env, order)
    \/ \E name \in names, env \in callEnvs, order \in Perms(DOMAIN rules) : Get(name, env, order)
    \/ \E cfg \in cfgs, env \in callEnvs : Upsert(cfg, env)
    \/ \E name \in names, env \in callEnvs : Delete(name, env)

(* The client against every kind of answer of the router, with a few         *)
(* configurations.                                                          *)
Next == Step(Passwords, LoginEnvs, CallEnvs, {NameA, NameWG}, {BaseCfg, RangeCfg, NoCfg})

Spec == Init /\ [][Next]_vars

(* The client with every configuration, against a few answers of the router. *)
InitValidate == ClientInit({EmptyTable}) /\ codec = NoCodec

NextValidate == Step({"secret"}, LoginEnvs, UpsertEnvs, {NameWG}, Cfgs)

SpecValidate == InitValidate /\ [][NextValidate]_vars

-----------------------------------------------------------------------------
(* The cookie shim against the cookies a router may set.                    *)

Cookie(name, value) == name \o <<"=">> \o value

T1 == <<"t", "1">>
T2 == <<"t", "2">>
LangLine == Cookie(<<"l", "a", "n", "g">>, <<"f", "r">>)
PrefLine == Cookie(<<"p", "r", "e", "f">>, <<"x">> \o patchedCookieName)
DeviceSessionLine == Cookie(<<"a", "b">> \o realCookieName, T1) \o <<";", " ", "P", "a", "t", "h", "=", "/">>
ScopedSessionLine == SessionLine(T1) \o <<";", " ", "P", "a", "t", "h", "=">> \o realCookieName
EchoSessionLine == SessionLine(<<"a">> \o realCookieName)

LoggedIn(setCookie) ==
    Env("none", 200, setCookie, "", "served", [kind |-> "object", contextID |-> "ctx1"])

ShimLoginEnvs ==
    {Env("transport", 0, <<>>, "", "absent", NoData),
     LoggedIn(<<>>),
     LoggedIn(<<SessionLine(T1)>>),
     LoggedIn(<<DeviceSessionLine>>),
     LoggedIn(<<LangLine, SessionLine(T1)>>),
     LoggedIn(<<SessionLine(T1), PrefLine>>),
     LoggedIn(<<ScopedSessionLine>>),
     LoggedIn(<<EchoSessionLine>>)}

ShimCallEnvs ==
    {Env("transport", 0, <<>>, "", "absent", NoData),
     Env("none", 200, <<>>, "", "served", NoData),
     Env("none", 200, <<SessionLine(T2)>>, "", "served", NoData),
     Env("none", 200, <<LangLine>>, ErrorList, "null", NoData)}

InitShim == ClientInit({EmptyTable}) /\ codec = NoCodec

NextShim == Step({"secret"}, ShimLoginEnvs, ShimCallEnvs, {NameWG}, {BaseCfg})

SpecShim == InitShim /\ [][NextShim]_vars

-----------------------------------------------------------------------------
(* The codecs on their own: the inputs are drawn at the start, and each     *)
(* step runs one codec round trip on them.                                  *)

MaxSmallPort == 10
MaxSmallExtent == 4

PortSamples == (MinPort..MaxSmallPort) \cup {80, 99, 100, 8080, 51820, MaxPort - 1, MaxPort}

ExtentSamples == (0..MaxSmallExtent) \cup {9, 10, 100, MaxPortRange, MaxPortRange + 1}

Words ==
    {ProtocolTCP, ProtocolUDP, ProtocolTCPUDP, ProtocolUnknown, "icmp", "",
     "6", "17", "6,17", "1", "17,6", "6, 17"}

InitCodec ==
    /\ ClientInit({EmptyTable})
    /\ codec \in {[NoCodec EXCEPT !.op = "input", !.port = p, !.extent = r, !.word = w] :
                    p \in PortSamples, r \in ExtentSamples, w \in Words}

Unused == <<phase, token, jar, rules, issued, last>>

\* format(parse(str(p)))
ParsePlainPort ==
    /\ codec.op = "input"
    /\ \E parsed \in {parsePortRange(Itoa(codec.port))} :
         codec' = [codec EXCEPT !.op = "plain", !.text = Itoa(codec.port), !.parsed = parsed,
                                !.back = formatPortRange(parsed.externalPort, parsed.portRange)]
    /\ UNCHANGED Unused

\* parse(format(p, r))
FormatPortRange ==
    /\ codec.op = "input"
    /\ \E text \in {formatPortRange(codec.port, codec.extent)} :
         codec' = [codec EXCEPT !.op = "range", !.text = text, !.parsed = parsePortRange(text)]
    /\ UNCHANGED Unused

\* decode(encode(x))
EncodeProtocol ==
    /\ codec.op = "input"
    /\ codec' = [codec EXCEPT !.op = "encode", !.wire = intString(codec.word),
                              !.proto = parseProtocol(intString(codec.word))]
    /\ UNCHANGED Unused

\* encode(decode(w))
DecodeProtocol ==
    /\ codec.op = "input"
    /\ codec' = [codec EXCEPT !.op = "decode", !.proto = parseProtocol(codec.word),
                              !.wire = intString(parseProtocol(codec.word))]
    /\ UNCHANGED Unused

NextCodec == ParsePlainPort \/ FormatPortRange \/ EncodeProtocol \/ DecodeProtocol

SpecCodec == InitCodec /\ [][NextCodec]_vars

-----------------------------------------------------------------------------
(* Properties.                                                              *)

\* The invariants of a configuration, stated on its fields.
ValidConfig(c) ==
    /\ c.Name # <<>>
    /\ c.ExternalPort \in MinPort..MaxPort
    /\ c.InternalPort \in MinPort..MaxPort
    /\ c.PortRange \in MinPortRange..MaxPortRange
    /\ c.Protocol \in {"tcp", "udp", "tcp/udp"}
    /\ c.Destination \in ValidIPLiterals

\* The last operation is one built on doReq that reached the point of calling it.
CalledRouter ==
    \/ last.op \in {"List", "Get", "Delete"}
    \/ last.op = "Upsert" /\ ValidConfig(last.cfg)

\* The router answered the last operation with a well-formed envelope.
EnvelopeDelivered == last.env.fail = "none"

\* C1: UpsertPortForwarding sends exactly one setPortForwarding request when the
\* configuration satisfies every invariant, and for a configuration that
\* violates one it returns a validation error, sends nothing and leaves the
\* router's table as it was.
C1_UpsertSendsIffValid ==
    last.op = "Upsert" =>
        /\ ValidConfig(last.cfg) =>
              /\ Len(last.sent) = 1
              /\ last.sent[1].body.method = "setPortForwarding"
              /\ (last.err # <<>> => last.err[1] # "validate configuration")
        /\ ~ValidConfig(last.cfg) =>
              /\ last.sent = <<>>
              /\ last.err # <<>>
              /\ last.err[1] = "validate configuration"

C1_Witness ==
    /\ last.op = "Upsert"
    /\ last.cfg.ExternalPort = MaxPort + 1
    /\ last.cfg.Destination = IPv4Literal
    /\ last.sent = <<>>
    /\ last.err = <<"validate configuration", "invalid external port">>

\* C2: when the envelope of the response carries a non-empty errors payload,
\* list, get, upsert of a valid configuration and delete return an error,
\* whatever the HTTP status code and the status payload.
C2_ErrorsPayloadFails ==
    (CalledRouter /\ EnvelopeDelivered /\ ErrorsNonEmpty(last.env.errors)) =>
        /\ last.call.err = <<"api error">>
        /\ last.err # <<>>

C2_Witness ==
    /\ last.op = "Upsert"
    /\ ValidConfig(last.cfg)
    /\ last.env.code = 200
    /\ last.env.status = "served"
    /\ ErrorsNonEmpty(last.env.errors)
    /\ last.err = <<"do request", "api error">>

\* C3: for a well-formed envelope whose errors payload is absent or empty the
\* authenticated call succeeds and returns the status payload unchanged, and it
\* returns an API error only when the errors payload is non-empty.
C3_EmptyErrorsSucceed ==
    (CalledRouter /\ EnvelopeDelivered) =>
        /\ ~ErrorsNonEmpty(last.env.errors) =>
              /\ last.call.err = <<>>
              /\ last.call.data = RouterStatus(last.sent[1], rules, last.env)
        /\ last.call.err = <<"api error">> => ErrorsNonEmpty(last.env.errors)

\* The login call failed in one of the three ways: the transport, a body that
\* is not JSON, an envelope with a non-empty errors payload.
LoginFailed(env) ==
    \/ env.fail \in {"transport", "malformed"}
    \/ env.fail = "none" /\ ErrorsNonEmpty(env.errors)

\* The context identifier of a login response, "" when it holds none.
LoginContextID(env) ==
    IF env.fail = "none" /\ env.data.kind = "object" THEN env.data.contextID ELSE ""

\* C4: NewClient attempts login exactly once, returns an error and no client
\* when login failed in any of the three ways, and returns a client only when
\* login yielded a context identifier.
C4_FailedLoginAbortsConstruction ==
    last.op = "NewClient" =>
        /\ Len(last.sent) = 1
        /\ last.sent[1].body.method = "createContext"
        /\ (LoginFailed(last.env) => phase = "failed" /\ last.err # <<>>)
        /\ (phase = "ready" => LoginContextID(last.env) # "" /\ token = LoginContextID(last.env))

\* C5: the token is written by login only: the client starts with the context
\* identifier of the login response as its token, no later operation changes
\* it, and every request of those operations carries it.
C5_TokenSetOnceAtLogin ==
    [][/\ (phase = "new" /\ phase' = "ready") => token' = LoginContextID(last'.env)
       /\ phase = "ready" =>
             /\ phase' = "ready"
             /\ token' = token
             /\ \A i \in 1..Len(last'.sent) : last'.sent[i].authorization = "X-Sah " \o token]_vars

C5_Witness ==
    /\ phase = "ready"
    /\ token = "ctx1"
    /\ last.op = "List"
    /\ last.err # <<>>
    /\ Len(last.sent) = 1
    /\ last.sent[1].authorization = "X-Sah ctx1"

\* The names of the records a list call returned.
ListedNames == {last.list.out[i].Name : i \in 1..Len(last.list.out)}

\* The table the router served to the last operation, empty when it served none.
ServedTable == IF last.env.fail = "none" /\ last.env.status = "served" THEN rules ELSE EmptyTable

\* C10: GetPortForwarding issues exactly one list call; it returns the not-found
\* error exactly when that call succeeded and listed no record of the name, a
\* record of that name from the list when there is one, and the list call's
\* own error when it failed; the list is the one the router served to this call.
C10_GetScansFreshList ==
    last.op = "Get" =>
        /\ Len(last.sent) = 1
        /\ last.sent[1].body.method = "getPortForwarding"
        /\ last.err = <<"port forward not found">>
              <=> (last.list.err = <<>> /\ last.name \notin ListedNames)
        /\ (last.list.err = <<>> /\ last.name \in ListedNames) =>
              /\ last.err = <<>>
              /\ Len(last.out) = 1
              /\ last.out[1].Name = last.name
              /\ \E i \in 1..Len(last.list.out) : last.list.out[i] = last.out[1]
        /\ last.list.err # <<>> =>
              /\ last.err = <<"list port forwardings">> \o last.list.err
              /\ last.out = <<>>
        /\ last.list.err = <<>> =>
              ListedNames = {TrimPrefix(id, WebuiPrefix) : id \in DOMAIN ServedTable}

C10_Witness ==
    /\ last.op = "Get"
    /\ last.name = NameWG
    /\ last.list.err = <<>>
    /\ Len(last.list.out) > 0
    /\ last.err = <<"port forward not found">>

\* The Cookie header of the requests of the last operation, before the shim.
CookieBeforeShim == CookieHeader(last.pre.jar)

HoldsCookie(line, name, value) ==
    \E c \in {ParseCookieLine(line)[j] : j \in 1..Len(ParseCookieLine(line))} :
        c.name = name /\ c.value = value

\* A session cookie the router set arrives in the store under the store-safe name.
StoredUnderSafeName(line) ==
    \A sc \in {SessionCookieOf(line)[j] : j \in 1..Len(SessionCookieOf(line))} :
        \E k \in 1..Len(jar) :
            /\ jar[k].name = ReplaceAll(sc.name, realCookieName, patchedCookieName)
            /\ jar[k].value = sc.value

\* A Cookie header with the store-safe name goes out with the real name instead.
SentUnderRealName(before, after) ==
    (before # <<>> /\ Contains(before[1], patchedCookieName)) =>
        /\ after # <<>>
        /\ \A j \in 1..Len(ParseCookieLine(after[1])) :
              ~Contains(ParseCookieLine(after[1])[j].name, patchedCookieName)
        /\ \E j \in 1..Len(ParseCookieLine(after[1])) :
              Contains(ParseCookieLine(after[1])[j].name, realCookieName)

\* C6: a Set-Cookie header that names the wire cookie reaches the store under
\* the store-safe name with the same value, a Cookie header with the store-safe
\* name is transmitted under the real name, and once the router has set the
\* session cookie every later request presents it under its real name with the
\* value the router issued.
C6_SessionCookieRoundTrip ==
    last.sent # <<>> =>
        /\ last.env.fail # "transport" =>
              \A k \in 1..Len(last.env.setCookie) : StoredUnderSafeName(last.env.setCookie[k])
        /\ \A i \in 1..Len(last.sent) : SentUnderRealName(CookieBeforeShim, last.sent[i].cookie)
        /\ last.pre.issued # <<>> =>
              \A i \in 1..Len(last.sent) :
                  /\ last.sent[i].cookie # <<>>
                  /\ HoldsCookie(last.sent[i].cookie[1],
                                 last.pre.issued[1].name, last.pre.issued[1].value)

\* Only the name of a session cookie differs between the two cookies, and
\* only by the exchange of the real and the store-safe name.
RenamedOnly(before, after, from, to) ==
    /\ after.value = before.value
    /\ after.name = IF Contains(before.name, from) THEN ReplaceAll(before.name, from, to)
                    ELSE before.name

CookieLineRenamedOnly(before, after) ==
    LET pairs(b, a) ==
            /\ Len(a) = Len(b)
            /\ \A j \in 1..Len(b) : RenamedOnly(b[j], a[j], patchedCookieName, realCookieName)
    IN  pairs(ParseCookieLine(before), ParseCookieLine(after))

SetCookieLineRenamedOnly(before, after) ==
    LET parts(b, a) ==
            /\ Len(a) = Len(b)
            /\ Tail(a) = Tail(b)
            /\ RenamedOnly(ParseCookiePairs(<<b[1]>>)[1], ParseCookiePairs(<<a[1]>>)[1],
                           realCookieName, patchedCookieName)
    IN  parts(Split(before, <<";">>), Split(after, <<";">>))

\* C7: through the shim the number of cookies is preserved, and every cookie
\* keeps its value and attributes and, unless it is the session cookie, its
\* name, in requests and in responses.
C7_ShimRenamesOnly ==
    last.sent # <<>> =>
        /\ \A i \in 1..Len(last.sent) :
              /\ Len(last.sent[i].cookie) = Len(CookieBeforeShim)
              /\ \A k \in 1..Len(CookieBeforeShim) :
                    CookieLineRenamedOnly(CookieBeforeShim[k], last.sent[i].cookie[k])
        /\ last.env.fail # "transport" =>
              /\ Len(PatchResponse(last.env.setCookie)) = Len(last.env.setCookie)
              /\ \A k \in 1..Len(last.env.setCookie) :
                    SetCookieLineRenamedOnly(last.env.setCookie[k],
                                             PatchResponse(last.env.setCookie)[k])

\* C8: for a port p, formatting what parsing the decimal string of p gives
\* returns that string, and for a range extent r >= 2 parsing what formatting
\* (p, r) gives returns exactly (p, r), without error.
C8_PortRangeRoundTrip ==
    /\ codec.op = "plain" =>
          /\ codec.parsed = PortRangeResult(codec.port, 0, <<>>)
          /\ codec.back = codec.text
    /\ (codec.op = "range" /\ codec.extent >= 2) =>
          codec.parsed = PortRangeResult(codec.port, codec.extent, <<>>)

C8_Witness ==
    /\ codec.op = "range"
    /\ codec.port = MaxPort
    /\ codec.extent = MaxPortRange
    /\ codec.text = <<"6", "5", "5", "3", "5", "-", "1", "3", "1", "0", "7", "0">>
    /\ codec.parsed.portRange = MaxPortRange

ConcreteProtocols == {"tcp", "udp", "tcp/udp"}

WireProtocols == {"6", "17", "6,17"}

\* C9: decoding the encoding of TCP, UDP and TCP+UDP gives the protocol back,
\* encoding the decoding of "6", "17" and "6,17" gives the wire string back,
\* every other wire string decodes to Unknown, and every value outside the
\* three protocols encodes to the empty string, which no protocol encodes to.
C9_ProtocolBijection ==
    /\ codec.op = "encode" =>
          IF codec.word \in ConcreteProtocols
          THEN codec.proto = codec.word /\ codec.wire \in WireProtocols
          ELSE codec.wire = ""
    /\ codec.op = "decode" =>
          IF codec.word \in WireProtocols
          THEN codec.wire = codec.word /\ codec.proto \in ConcreteProtocols
          ELSE codec.proto = "unknown" /\ codec.wire = ""

C9_Witness ==
    /\ codec.op = "encode"
    /\ codec.word = "udp"
    /\ codec.wire = "17"
    /\ codec.proto = "udp"

-----------------------------------------------------------------------------
(* The list call against the mappings a router may serve.                   *)

WireguardRule == Rule("17", Itoa(51820), Itoa(51820))

OtherOriginRule ==
    [Rule("1", <<"8", "0", "0", "0", "-", "8", "0", "1", "0">>, <<"8", "0">>)
        EXCEPT !.DestinationIPAddress = IPv6Literal, !.Enable = FALSE]

\* The mappings the router may hold: the one of a single WireGuard rule, two
\* well-formed entries, and a well-formed entry next to one whose internal
\* port, first or second external-port segment is not an integer.
ListTables ==
    {Table(<<WebuiPrefix \o NameWG>>, <<WireguardRule>>),
     Table(<<WebuiPrefix \o NameWG, <<"x">>>>, <<WireguardRule, OtherOriginRule>>),
     Table(<<WebuiPrefix \o NameWG, WebuiPrefix \o <<"x">>>>,
           <<WireguardRule, Rule("6", <<"2", "2">>, <<"2", "x">>)>>),
     Table(<<WebuiPrefix \o NameWG, WebuiPrefix \o <<"x">>>>,
           <<WireguardRule, Rule("6", <<"2", "2">>, <<>>)>>),
     Table(<<WebuiPrefix \o NameWG, WebuiPrefix \o <<"x">>>>,
           <<WireguardRule, Rule("6", <<"a", "l", "l">>, <<"2", "2">>)>>),
     Table(<<WebuiPrefix \o NameWG, WebuiPrefix \o <<"x">>>>,
           <<WireguardRule, Rule("6", <<"8", "0", "-">>, <<"8", "0">>)>>)}

InitList == ClientInit(ListTables) /\ codec = NoCodec

NextList ==
    Step({"secret"}, {LoggedIn(<<>>), Env("transport", 0, <<>>, "", "absent", NoData)},
         UpsertEnvs, {NameWG, <<"x">>}, {BaseCfg})

SpecList == InitList /\ [][NextList]_vars

\* The text is an integer: an optional sign and then decimal digits only.
IsIntegerText(s) ==
    LET digits(body) == Len(body) > 0 /\ \A i \in 1..Len(body) : IsDigit(body[i])
    IN  digits(IF Len(s) > 0 /\ s[1] \in {"-", "+"} THEN Tail(s) ELSE s)

\* Every external-port segment and the internal port of the entry are integers.
IntegerPorts(raw) ==
    /\ IsIntegerText(raw.InternalPort)
    /\ \A k \in 1..Len(SplitN2(raw.ExternalPort, <<"-">>)) :
          IsIntegerText(SplitN2(raw.ExternalPort, <<"-">>)[k])

\* The record the wire mapping's entry stands for.
RecordOf(id, raw) ==
    [Name         |-> IF HasPrefix(id, WebuiPrefix) THEN Drop(id, Len(WebuiPrefix)) ELSE id,
     Protocol     |-> parseProtocol(raw.Protocol),
     ExternalPort |-> parsePortRange(raw.ExternalPort).externalPort,
     InternalPort |-> Atoi(raw.InternalPort).n,
     PortRange    |-> parsePortRange(raw.ExternalPort).portRange,
     Destination  |-> raw.DestinationIPAddress,
     Enabled      |-> raw.Enable]

\* The last operation is a list call to which the router served its table.
ListServed ==
    /\ last.op = "List"
    /\ last.call.err = <<>>
    /\ last.call.data.kind = "table"

\* C11: when the router serves a mapping to ListPortForwardings, the call
\* returns exactly one record per entry, each decoded from its entry, if every
\* entry has integer external-port segments and an integer internal port, and
\* an error and no records if any single entry has not.
C11_ListAllOrNothing ==
    ListServed =>
        IF \A id \in DOMAIN rules : IntegerPorts(rules[id])
        THEN /\ last.err = <<>>
             /\ Len(last.out) = Cardinality(DOMAIN rules)
             /\ \E f \in Perms(DOMAIN rules) :
                   \A i \in 1..Len(last.out) : last.out[i] = RecordOf(f[i], rules[f[i]])
        ELSE /\ last.err # <<>>
             /\ last.out = <<>>

C11_Witness ==
    /\ ListServed
    /\ DOMAIN rules = {WebuiPrefix \o NameWG, WebuiPrefix \o <<"x">>}
    /\ IntegerPorts(rules[WebuiPrefix \o NameWG])
    /\ ~IntegerPorts(rules[WebuiPrefix \o <<"x">>])
    /\ last.err = <<"parse internal port">>
    /\ last.out = <<>>

\* The numeric wire encoding of the three protocols.
WireEncoding(protocol) ==
    CASE protocol = "tcp" -> "6"
      [] protocol = "udp" -> "17"
      [] protocol = "tcp/udp" -> "6,17"

\* The parameters of the setPortForwarding request are those of the configuration.
PayloadOf(p, cfg) ==
    /\ p.id = WebuiPrefix \o cfg.Name
    /\ p.description = cfg.Name
    /\ p.protocol = WireEncoding(cfg.Protocol)
    /\ p.protocol # ""
    /\ p.externalPort = formatPortRange(cfg.ExternalPort, cfg.PortRange)
    /\ p.internalPort = cfg.InternalPort
    /\ p.destinationIPAddress = cfg.Destination
    /\ p.enable = cfg.Enabled

\* C12: the setPortForwarding request of an upsert of a valid configuration
\* carries id = "webui_" + name, description = name, the numeric encoding of
\* the protocol, externalPort = formatPortRange(externalPort, rangeExtent) and
\* the internal port, destination and enabled flag of the configuration; the
\* deletePortForwarding request of delete(name) carries id = "webui_" + name,
\* the identifier under which an accepted upsert of that name stored its rule
\* and which an accepted delete removes.
C12_UpsertPayloadFields ==
    /\ (last.op = "Upsert" /\ ValidConfig(last.cfg)) =>
          /\ Len(last.sent) = 1
          /\ last.sent[1].body.service = "Firewall"
          /\ last.sent[1].body.method = "setPortForwarding"
          /\ PayloadOf(last.sent[1].body.parameters, last.cfg)
          /\ last.err = <<>> => (WebuiPrefix \o last.cfg.Name) \in DOMAIN rules
    /\ last.op = "Delete" =>
          /\ Len(last.sent) = 1
          /\ last.sent[1].body.service = "Firewall"
          /\ last.sent[1].body.method = "deletePortForwarding"
          /\ last.sent[1].body.parameters.id = WebuiPrefix \o last.name
          /\ last.err = <<>> => (WebuiPrefix \o last.name) \notin DOMAIN rules

C12_Witness ==
    /\ last.op = "Upsert"
    /\ last.cfg = RangeCfg
    /\ last.err = <<>>
    /\ last.sent[1].body.parameters.id = <<"w", "e", "b", "u", "i", "_", "a">>
    /\ last.sent[1].body.parameters.protocol = "6"
    /\ last.sent[1].body.parameters.externalPort = <<"8", "0", "0", "0", "-", "8", "0", "1", "0">>
    /\ last.sent[1].body.parameters.internalPort = 80
    /\ DOMAIN rules = {<<"w", "e", "b", "u", "i", "_", "a">>}

\* The router served its table to the get call of the state.
GetServed(op) ==
    /\ op.op = "Get"
    /\ op.call.err = <<>>
    /\ op.call.data.kind = "table"

\* The record has the fields of the configuration.
SameRule(record, cfg) ==
    /\ record.Name = cfg.Name
    /\ record.Protocol = cfg.Protocol
    /\ record.ExternalPort = cfg.ExternalPort
    /\ record.InternalPort = cfg.InternalPort
    /\ record.PortRange = cfg.PortRange
    /\ record.Destination = cfg.Destination
    /\ record.Enabled = cfg.Enabled

\* C13: after a successful upsert of a valid configuration, a get of its name
\* that follows it directly, and to which the router serves its table, returns
\* a record whose name, protocol, external port, internal port, range extent,
\* destination and enabled flag are those of the configuration.
C13_WriteReadBack ==
    [][(/\ last.op = "Upsert"
        /\ ValidConfig(last.cfg)
        /\ last.err = <<>>
        /\ GetServed(last')
        /\ last'.name = last.cfg.Name)
          => /\ last'.err = <<>>
             /\ Len(last'.out) = 1
             /\ SameRule(last'.out[1], last.cfg)]_vars

\* The decimal segments of an encoded externalPort field, as integers.
PortsOfField(text) ==
    {Atoi(Split(text, <<"-">>)[k]).n : k \in 1..Len(Split(text, <<"-">>))}

\* C14: the externalPort field of the request of an upsert of a valid
\* configuration holds a start port and, for a range, an end port that are
\* both in 1..65535.
C14_SentRangeInsidePortSpace ==
    (last.op = "Upsert" /\ ValidConfig(last.cfg)) =>
        \A port \in PortsOfField(last.sent[1].body.parameters.externalPort) :
            port \in MinPort..MaxPort

====
